---- MODULE Spec2Model ----
(***************************************************************************)
(* Model of src/core/nativeMain/cinterop/cpp/windows.cpp: the Windows      *)
(* time-zone backend of kotlinx-datetime.                                  *)
(*                                                                         *)
(*  - SpecDst: the offset computation (unix_time_to_systemtime,            *)
(*    get_transition_date, is_daylight_time, offset_at_systime) applied to *)
(*    bounded sets of zone records and instants.                           *)
(*  - Spec: the zone record cache (next_flush, cache, cache_rwlock) under  *)
(*    concurrent calls of offset_at_instant.                               *)
(*                                                                         *)
(* Linear time.  The code compares 64-bit counts of seconds since          *)
(* 1601-01-01 (FILETIME ticks / WINDOWS_TICKS_PER_SEC).  Those counts do   *)
(* not fit TLC's 32-bit integers, so a linear instant is the pair          *)
(* [d |-> days since 1601-01-01, s |-> second of that day], ordered        *)
(* lexicographically; this is the same order on the same instants.         *)
(* Milliseconds are dropped, as the integer division by                    *)
(* WINDOWS_TICKS_PER_SEC drops them.                                       *)
(***************************************************************************)
EXTENDS Integers, Sequences, FiniteSets, TLC

\* ------------------------------------------------------------------ bounds
\* Instants are taken up to Delta seconds around each base instant.
Delta == 1
\* The steady clock's readings run from 0 to MaxTime (minutes).
MaxTime == 7

\* ------------------------------------------------------- program constants
\* CACHE_INVALIDATION_TIMEOUT, in minutes.
CACHE_INVALIDATION_TIMEOUT == 5
\* MAX_KEY_LENGTH
MAX_KEY_LENGTH == 128
\* SECS_BETWEEN_1601_1970 (11644473600) expressed in days.
DAYS_BETWEEN_1601_1970 == 134774
INT_MAX == 2147483647

\* ---------------------------------------------------------------- calendar
\* date::sys_days(year_month_day): days since 1970-01-01 of a civil date.
DaysFromCivil(y, m, d) ==
    LET yy  == IF m <= 2 THEN y - 1 ELSE y
        era == yy \div 400
        yoe == yy - era * 400
        mp  == IF m > 2 THEN m - 3 ELSE m + 9
        doy == (153 * mp + 2) \div 5 + d - 1
        doe == yoe * 365 + yoe \div 4 - yoe \div 100 + doy
    IN  era * 146097 + doe - 719468

\* date::year_month_day(sys_days): the civil date of a day number.
CivilFromDays(z0) ==
    LET z   == z0 + 719468
        era == z \div 146097
        doe == z - era * 146097
        yoe == (doe - doe \div 1460 + doe \div 36524 - doe \div 146096) \div 365
        doy == doe - (365 * yoe + yoe \div 4 - yoe \div 100)
        mp  == (5 * doy + 2) \div 153
        d   == doy - (153 * mp + 2) \div 5 + 1
        m   == IF mp < 10 THEN mp + 3 ELSE mp - 9
        y   == yoe + era * 400 + (IF m <= 2 THEN 1 ELSE 0)
    IN  [year |-> y, month |-> m, day |-> d]

\* date::weekday(sys_days): 0 = Sunday.
WeekdayOf(z) == (z + 4) % 7

IsLeap(y) == (y % 4 = 0) /\ ((y % 100 # 0) \/ (y % 400 = 0))

DaysInMonth(y, m) ==
    IF m = 2 THEN (IF IsLeap(y) THEN 29 ELSE 28)
    ELSE IF m \in {4, 6, 9, 11} THEN 30 ELSE 31

\* date::sys_days(year_month_weekday): the index-th weekday wd of the month.
NthWeekday(y, m, wd, index) ==
    LET first == DaysFromCivil(y, m, 1)
    IN  first + ((wd - WeekdayOf(first)) % 7) + (index - 1) * 7

\* date::sys_days(year_month_weekday_last): the last weekday wd of the month.
LastWeekday(y, m, wd) ==
    LET last == DaysFromCivil(y, m, DaysInMonth(y, m))
    IN  last - ((WeekdayOf(last) - wd) % 7)

\* ------------------------------------------------------------ linear time
Lin(d, s) == [d |-> d + (s \div 86400), s |-> s % 86400]
AddSecs(x, k) == Lin(x.d, x.s + k)
Lt(a, b) == (a.d < b.d) \/ (a.d = b.d /\ a.s < b.s)
Ge(a, b) == ~Lt(a, b)

\* SYSTEMTIME
SysTime(y, mo, dow, d, h, mi, s) ==
    [wYear |-> y, wMonth |-> mo, wDayOfWeek |-> dow, wDay |-> d,
     wHour |-> h, wMinute |-> mi, wSecond |-> s]

\* SystemTimeToFileTime accepts only a valid date and time.
ValidSystemTime(st) ==
    /\ st.wYear >= 1601
    /\ st.wMonth \in 1..12
    /\ st.wDay >= 1 /\ st.wDay <= DaysInMonth(st.wYear, st.wMonth)
    /\ st.wHour \in 0..23 /\ st.wMinute \in 0..59 /\ st.wSecond \in 0..59

\* systemtime_to_ticks(systime) / WINDOWS_TICKS_PER_SEC.  `ft` starts as
\* {0, 0} and stays so when SystemTimeToFileTime rejects the date.
systemtime_to_secs(st) ==
    IF ValidSystemTime(st)
    THEN Lin(DaysFromCivil(st.wYear, st.wMonth, st.wDay) + DAYS_BETWEEN_1601_1970,
             st.wHour * 3600 + st.wMinute * 60 + st.wSecond)
    ELSE Lin(0, 0)

\* unix_time_to_systemtime: FileTimeToSystemTime of
\* (epoch_sec + SECS_BETWEEN_1601_1970) * WINDOWS_TICKS_PER_SEC.
unix_time_to_systemtime(epoch_sec) ==
    LET x   == Lin(DAYS_BETWEEN_1601_1970, epoch_sec)
        z   == x.d - DAYS_BETWEEN_1601_1970
        ymd == CivilFromDays(z)
    IN  SysTime(ymd.year, ymd.month, WeekdayOf(z), ymd.day,
                x.s \div 3600, (x.s % 3600) \div 60, x.s % 60)

\* get_transition_date(year, src, dst): the value left in dst.
get_transition_date(year, src) ==
    IF src.wYear # 0 THEN src
    ELSE LET days == IF src.wDay = 5
                     THEN LastWeekday(year, src.wMonth, src.wDayOfWeek)
                     ELSE NthWeekday(year, src.wMonth, src.wDayOfWeek, src.wDay)
         IN  [src EXCEPT !.wYear = year, !.wDay = CivilFromDays(days).day]

\* line 209 testing the daylight rule's month instead of the standard rule's.
DstUnsupportedByDaylightMonth(tzi) == tzi.DaylightDate.wMonth = 0
\* is_daylight_time, line 209: "daylight saving time is not supported at all".
DstUnsupported(tzi) == tzi.StandardDate.wMonth = 0

\* is_daylight_time, lines 227-228.
standard_secs(tzi, year) ==
    AddSecs(systemtime_to_secs(get_transition_date(year, tzi.StandardDate)),
            (tzi.Bias + tzi.DaylightBias) * 60)
\* lines 229-230 with the bias that is active after the transition, not before.
daylight_secs_bias_after(tzi, year) ==
    AddSecs(systemtime_to_secs(get_transition_date(year, tzi.DaylightDate)),
            (tzi.Bias + tzi.DaylightBias) * 60)
\* is_daylight_time, lines 229-230.
daylight_secs(tzi, year) ==
    AddSecs(systemtime_to_secs(get_transition_date(year, tzi.DaylightDate)),
            (tzi.Bias + tzi.StandardBias) * 60)

\* is_daylight_time, lines 235-241, with the end of the daylight interval
\* included (a plausible slip of the comparison).
DaylightIntervalClosed(daylight, standard, time_secs) ==
    IF Lt(daylight, standard)
    THEN ~Lt(standard, time_secs) /\ Ge(time_secs, daylight)
    ELSE ~Lt(standard, time_secs) \/ Ge(time_secs, daylight)
\* is_daylight_time, lines 235-241.
DaylightInterval(daylight, standard, time_secs) ==
    IF Lt(daylight, standard)
    THEN Lt(time_secs, standard) /\ Ge(time_secs, daylight)
    ELSE Lt(time_secs, standard) \/ Ge(time_secs, daylight)

\* is_daylight_time(dtzi, tzi, time)
is_daylight_time(tzi, time) ==
    IF DstUnsupported(tzi) THEN FALSE
    ELSE DaylightInterval(daylight_secs(tzi, time.wYear),
                          standard_secs(tzi, time.wYear),
                          systemtime_to_secs(time))

\* The months of the rules is_daylight_time hands to get_transition_date.
resolved_months(tzi) ==
    IF DstUnsupported(tzi) THEN {}
    ELSE {tzi.StandardDate.wMonth, tzi.DaylightDate.wMonth}

\* GetTimeZoneInformationForYear on a platform without per-year rule data:
\* the record's own rules.
GetTimeZoneInformationForYear(dtzi) ==
    [Bias |-> dtzi.Bias, StandardBias |-> dtzi.StandardBias,
     DaylightBias |-> dtzi.DaylightBias,
     StandardDate |-> dtzi.StandardDate, DaylightDate |-> dtzi.DaylightDate]

\* offset_at_systime(dtzi, systime); ok is GetTimeZoneInformationForYear's
\* return value.
offset_at_systime(dtzi, systime, ok) ==
    IF ~ok THEN INT_MAX
    ELSE LET tzi  == GetTimeZoneInformationForYear(dtzi)
             bias == tzi.Bias + (IF is_daylight_time(tzi, systime)
                                 THEN tzi.DaylightBias ELSE tzi.StandardBias)
         IN  (-bias) * 60
\* ------------------------------------------------------------- zone records
\* A floating or absolute transition rule: SYSTEMTIME used as a rule.
Rule(y, mo, dow, d, h) == SysTime(y, mo, dow, d, h, 0, 0)
NoRule == Rule(0, 0, 0, 0, 0)

\* DYNAMIC_TIME_ZONE_INFORMATION; wlen is wcslen(TimeZoneKeyName).
Dtzi(key, wlen, bias, sbias, dbias, sdate, ddate) ==
    [TimeZoneKeyName |-> key, wlen |-> wlen, Bias |-> bias,
     StandardBias |-> sbias, DaylightBias |-> dbias,
     StandardDate |-> sdate, DaylightDate |-> ddate]

\* Northern pattern: second Sunday of March 02:00, first Sunday of November 02:00.
Eastern == Dtzi("Eastern Standard Time", 21, 300, 0, -60,
                Rule(0, 11, 0, 1, 2), Rule(0, 3, 0, 2, 2))
\* Northern pattern: last Sunday of March 02:00, last Sunday of October 03:00.
EasternLast == Dtzi("Eastern Standard Time", 21, 300, 0, -60,
                    Rule(0, 10, 0, 5, 3), Rule(0, 3, 0, 5, 2))
\* Northern pattern, absolute rules of the year 2021.
EasternAbs == Dtzi("Eastern Standard Time", 21, 300, 0, -60,
                   Rule(2021, 11, 0, 7, 2), Rule(2021, 3, 0, 14, 2))
\* Southern pattern: first Sunday of October 02:00, first Sunday of April 03:00.
Sydney == Dtzi("AUS Eastern Standard Time", 25, -600, 0, -60,
               Rule(0, 4, 0, 1, 3), Rule(0, 10, 0, 1, 2))
\* Both transitions fall on the same instant (2021-06-01 07:00:00 UTC).
SameInstant == Dtzi("Eastern Standard Time", 21, 300, 0, -60,
                    Rule(2021, 6, 2, 1, 3), Rule(2021, 6, 2, 1, 2))
India == Dtzi("India Standard Time", 19, -330, 0, -60, NoRule, NoRule)
Utc == Dtzi("UTC", 3, 0, 0, 0, NoRule, NoRule)
UtcLongName == Dtzi("Coordinated Universal Time", 26, 0, 0, 0, NoRule, NoRule)
\* Only the standard rule has month 0.
StandardMonthZero == Dtzi("Eastern Standard Time", 21, 300, 0, -60,
                          NoRule, Rule(0, 3, 0, 2, 2))
\* Only the daylight rule has month 0.
DaylightMonthZero == Dtzi("Eastern Standard Time", 21, 300, 0, -60,
                          Rule(0, 11, 0, 1, 2), NoRule)
\* A record whose key name fills the whole TimeZoneKeyName array.
Malformed == Dtzi("Anomalous", MAX_KEY_LENGTH, 0, 0, 0, NoRule, NoRule)

DstZones == {Eastern, EasternLast, EasternAbs, Sydney, SameInstant, India, Utc,
             StandardMonthZero, DaylightMonthZero}

\* Transition instants (epoch seconds) of the zones above in 2021 and 2022,
\* year boundaries, and the epoch itself.
BaseInstants == {0, 1609459200, 1640995200, 1672531199, 1622530800,
                 1615705200, 1636264800, 1647154800, 1667714400,
                 1616914800, 1635663600, 1648364400, 1667113200,
                 1617465600, 1633190400, 1648915200, 1664640000}
Instants == {b + k : b \in BaseInstants, k \in (0 - Delta)..Delta}

VARIABLES
    \* offset computation (SpecDst)
    dtzi, epoch_sec, dpc, systime, tzi_ok, dst, offset,
    \* zone record cache (Spec)
    now, platform, next_flush, cache, cache_rwlock,
    pc, zone_name, native_name, current_time, i, result,
    \* history
    refreshes, pass, seen

dstVars == <<dtzi, epoch_sec, dpc, systime, tzi_ok, dst, offset>>
cacheVars == <<now, platform, next_flush, cache, cache_rwlock,
               pc, zone_name, native_name, current_time, i, result,
               refreshes, pass, seen>>
vars == <<dstVars, cacheVars>>
\* ======================================================= offset computation
Threads == {"t1", "t2"}
NoThread == "none"
NoDst == [standard |-> Lin(0, 0), daylight |-> Lin(0, 0),
          time_secs |-> Lin(0, 0), active |-> FALSE, months |-> {}]
NoSystime == SysTime(0, 0, 0, 0, 0, 0, 0)
\* What a call saw when it took its time: whether the window had elapsed
\* (stale), and whether a refresh pass has enumerated since (refreshed).
NoSeen == [stale |-> FALSE, refreshed |-> FALSE]
NoResult == [kind |-> "none", val |-> 0, absent |-> FALSE]

NativeKeys == {"UTC", "Eastern Standard Time", "AUS Eastern Standard Time"}
\* The value of a key the map does not hold.
Absent == Dtzi("", 0, 0, 0, 0, NoRule, NoRule)
EmptyCache == [k \in NativeKeys |-> Absent]

\* The cache as it is after static initialisation (lines 75-81).
CacheInit ==
    /\ now = 0
    /\ platform = 1
    /\ next_flush = 0
    /\ cache = EmptyCache
    /\ cache_rwlock = [writer |-> NoThread, readers |-> {}]
    /\ pc = [t \in Threads |-> "idle"]
    /\ zone_name = [t \in Threads |-> ""]
    /\ native_name = [t \in Threads |-> ""]
    /\ current_time = [t \in Threads |-> 0]
    /\ i = [t \in Threads |-> 0]
    /\ result = [t \in Threads |-> NoResult]
    /\ refreshes = <<>>
    /\ pass = [src |-> 0, partial |-> FALSE]
    /\ seen = [t \in Threads |-> NoSeen]

\* offset_at_instant on a record already resolved: the inputs.
InitDst ==
    /\ dtzi \in DstZones
    /\ epoch_sec \in Instants
    /\ dpc = "unix_time_to_systemtime"
    /\ systime = NoSystime
    /\ tzi_ok = FALSE
    /\ dst = NoDst
    /\ offset = 0
    /\ CacheInit

\* offset_at_instant, line 317.
UnixTimeToSystemtime ==
    /\ dpc = "unix_time_to_systemtime"
    /\ systime' = unix_time_to_systemtime(epoch_sec)
    /\ dpc' = "GetTimeZoneInformationForYear"
    /\ UNCHANGED <<dtzi, epoch_sec, tzi_ok, dst, offset, cacheVars>>

\* offset_at_systime, lines 248-252: the platform call succeeds or fails.
TziForYear ==
    /\ dpc = "GetTimeZoneInformationForYear"
    /\ \E ok \in BOOLEAN :
        /\ tzi_ok' = ok
        /\ IF ok THEN dpc' = "is_daylight_time" /\ offset' = offset
                 ELSE dpc' = "done" /\ offset' = offset_at_systime(dtzi, systime, FALSE)
    /\ UNCHANGED <<dtzi, epoch_sec, systime, dst, cacheVars>>

\* is_daylight_time, lines 203-242.
IsDaylightTime ==
    /\ dpc = "is_daylight_time"
    /\ LET tzi == GetTimeZoneInformationForYear(dtzi)
       IN  dst' = IF DstUnsupported(tzi)
                  THEN [NoDst EXCEPT !.time_secs = systemtime_to_secs(systime)]
                  ELSE [standard  |-> standard_secs(tzi, systime.wYear),
                        daylight  |-> daylight_secs(tzi, systime.wYear),
                        time_secs |-> systemtime_to_secs(systime),
                        active    |-> is_daylight_time(tzi, systime),
                        months    |-> resolved_months(tzi)]
    /\ dpc' = "offset_at_systime"
    /\ UNCHANGED <<dtzi, epoch_sec, systime, tzi_ok, offset, cacheVars>>

\* offset_at_systime, lines 253-259.
OffsetAtSystime ==
    /\ dpc = "offset_at_systime"
    /\ offset' = offset_at_systime(dtzi, systime, tzi_ok)
    /\ dpc' = "done"
    /\ UNCHANGED <<dtzi, epoch_sec, systime, tzi_ok, dst, cacheVars>>

NextDst == UnixTimeToSystemtime \/ TziForYear \/ IsDaylightTime \/ OffsetAtSystime

SpecDst == InitDst /\ [][NextDst]_vars
\* ------------------------------------------------ claims on the computation
\* The transitions of the northern-pattern zones, from the calendar: epoch
\* seconds of the daylight entry (d) and the standard entry (s) in the year
\* that holds epoch second e.
Year2021(e) == 1609459200 <= e /\ e < 1640995200
Year2022(e) == 1640995200 <= e /\ e < 1672531200
HasReference(z, e) ==
    \/ z \in {Eastern, EasternLast} /\ (Year2021(e) \/ Year2022(e))
    \/ z = EasternAbs /\ Year2021(e)
Reference(z, e) ==
    IF z = EasternLast
    THEN (IF Year2021(e) THEN [d |-> 1616914800, s |-> 1635663600]
                         ELSE [d |-> 1648364400, s |-> 1667113200])
    ELSE (IF Year2021(e) THEN [d |-> 1615705200, s |-> 1636264800]
                         ELSE [d |-> 1647154800, s |-> 1667714400])

Answered == dpc = "done" /\ tzi_ok

\* C3: for a northern-pattern zone (Bias 300, StandardBias 0, DaylightBias
\* -60, both rules set) the offset is -18000 before the daylight entry,
\* -14400 from the daylight entry on, -14400 before the standard entry and
\* -18000 from the standard entry on: each transition instant belongs to the
\* interval that starts at it, and the two sides differ by 3600 seconds.
C3_NorthernBoundary ==
    (Answered /\ HasReference(dtzi, epoch_sec)) =>
        LET r == Reference(dtzi, epoch_sec)
        IN  /\ epoch_sec < r.d => offset = -18000
            /\ (r.d <= epoch_sec /\ epoch_sec < r.s) => offset = -14400
            /\ r.s <= epoch_sec => offset = -18000
            /\ epoch_sec = r.d - 1 => offset = -18000
            /\ epoch_sec \in {r.d, r.d + 1} => offset = -18000 + 3600
            /\ epoch_sec = r.s - 1 => offset = -14400
            /\ epoch_sec \in {r.s, r.s + 1} => offset = -14400 - 3600
\* A query exactly at a standard-entry instant, answered with standard time.
C3_Witness ==
    /\ Answered /\ HasReference(dtzi, epoch_sec)
    /\ epoch_sec = Reference(dtzi, epoch_sec).s
    /\ offset = -18000

\* C8: for a record that observes daylight saving, with d and s the
\* bias-corrected daylight and standard entries of the candidate's year and t
\* the candidate: if d < s the result is true exactly when d <= t < s,
\* otherwise exactly when t < s or t >= d.
C8_IntervalRule ==
    (dpc \in {"offset_at_systime", "done"} /\ tzi_ok
        /\ dtzi.StandardDate.wMonth # 0) =>
        LET d == dst.daylight
            s == dst.standard
            t == dst.time_secs
        IN  /\ Lt(d, s) => (dst.active <=> (~Lt(t, d) /\ Lt(t, s)))
            /\ ~Lt(d, s) => (dst.active <=> (Lt(t, s) \/ ~Lt(t, d)))
\* The reversed ordering, queried exactly at the daylight entry.
C8_Witness ==
    /\ Answered /\ dtzi = Sydney
    /\ Lt(dst.standard, dst.daylight)
    /\ dst.time_secs = dst.daylight
    /\ dst.active

Entry(rec) == [dwResult |-> "ERROR_SUCCESS", dtzi |-> rec]
Failed == [dwResult |-> "ERROR_INVALID_DATA", dtzi |-> Malformed]

\* The zone lists the platform can hold; `platform` indexes the current one.
\* The second reports no UTC zone and fails on one index; the third holds a
\* record whose key name is too long.
Platforms == <<
    <<Entry(Eastern), Entry(Utc)>>,
    <<Entry(EasternLast), Failed, Entry(Sydney)>>,
    <<Entry(UtcLongName), Entry(Malformed), Entry(Eastern)>> >>

\* key_to_string: the length test of line 46.
KeyTooLong(rec) == MAX_KEY_LENGTH < rec.wlen + 1
\* key_to_string: the name returned (lines 50-54).
key_to_string(rec) ==
    IF rec.TimeZoneKeyName = "Coordinated Universal Time" THEN "UTC"
    ELSE rec.TimeZoneKeyName

\* standard_to_windows (windows_zones.hpp): total for "UTC", partial otherwise.
ZoneNames == {"UTC", "America/New_York", "Not/AZone"}
standard_to_windows ==
    [n \in {"UTC", "America/New_York", "Australia/Sydney"} |->
        IF n = "UTC" THEN "UTC"
        ELSE IF n = "America/New_York" THEN "Eastern Standard Time"
        ELSE "AUS Eastern Standard Time"]

\* Instants asked of offset_at_instant in the cache model.
CacheInstants == {0, 1625097600}

Writer == cache_rwlock.writer
Readers == cache_rwlock.readers
\* A refresh pass between cache.clear() and the end of the loop.
InPass(t) == pc[t] \in {"setflush", "enum"}

Init ==
    /\ dtzi = Utc
    /\ epoch_sec = 0
    /\ dpc = "done"
    /\ systime = NoSystime
    /\ tzi_ok = FALSE
    /\ dst = NoDst
    /\ offset = 0
    /\ CacheInit

\* The platform's zone list changes.  An enumeration pass is taken as a
\* snapshot of the list: the list does not change while one is running.
PlatformChange ==
    /\ \A t \in Threads : ~InPass(t)
    /\ platform' \in (DOMAIN Platforms) \ {platform}
    /\ UNCHANGED <<dstVars, now, next_flush, cache, cache_rwlock, pc,
                   zone_name, native_name, current_time, i, result,
                   refreshes, pass, seen>>

\* offset_at_instant(zone_name, _) up to line 107: time_zone_by_name looks
\* the name up (line 121) and time_zone_by_native_name takes the time.
\* steady_clock::now() gives a reading no smaller than the one before it;
\* `now` is the latest reading.
Call(t) ==
    /\ pc[t] = "idle"
    /\ \E name \in ZoneNames :
        /\ zone_name' = [zone_name EXCEPT ![t] = name]
        /\ IF name \in DOMAIN standard_to_windows
           THEN /\ native_name' = [native_name EXCEPT ![t] = standard_to_windows[name]]
                /\ \E reading \in now..MaxTime :
                    /\ now' = reading
                    /\ current_time' = [current_time EXCEPT ![t] = reading]
                    /\ seen' = [seen EXCEPT ![t] =
                            [stale |-> reading > next_flush,
                             refreshed |-> \E w \in Threads : InPass(w)]]
                /\ pc' = [pc EXCEPT ![t] = "check"]
                /\ result' = result
           ELSE \* std::out_of_range caught at line 124; line 314.
                /\ pc' = [pc EXCEPT ![t] = "done"]
                /\ result' = [result EXCEPT ![t] =
                        [kind |-> "value", val |-> INT_MAX, absent |-> TRUE]]
                /\ UNCHANGED <<now, native_name, current_time, seen>>
    /\ UNCHANGED <<dstVars, platform, next_flush, cache, cache_rwlock, i,
                   refreshes, pass>>

\* Line 108: `current_time > next_flush`, read without the lock.  A read
\* that runs while line 93 is writing next_flush is a data race: either
\* outcome of the comparison.
NeedsFlush(t, racing) ==
    IF racing THEN BOOLEAN ELSE {current_time[t] > next_flush}

\* time_zone_by_native_name, lines 108-110.  current_time is a local that
\* is not read again once the refresh is skipped or over: it is zeroed then.
CheckFlush(t) ==
    /\ pc[t] = "check"
    /\ \E stale \in NeedsFlush(t, \E w \in Threads : pc[w] = "setflush") :
        /\ pc' = [pc EXCEPT ![t] = IF stale THEN "lock" ELSE "lock_shared"]
        /\ current_time' = [current_time EXCEPT ![t] = IF stale THEN @ ELSE 0]
    /\ UNCHANGED <<dstVars, now, platform, next_flush, cache, cache_rwlock,
                   zone_name, native_name, i, result, refreshes, pass, seen>>

\* std::shared_mutex::lock: no writer and no reader.
MayLock(t) == Writer = NoThread /\ Readers = {}

\* repopulate_timezone_cache, line 87.
Lock(t) ==
    /\ pc[t] = "lock"
    /\ MayLock(t)
    /\ cache_rwlock' = [cache_rwlock EXCEPT !.writer = t]
    /\ pc' = [pc EXCEPT ![t] = "recheck"]
    /\ UNCHANGED <<dstVars, now, platform, next_flush, cache,
                   zone_name, native_name, current_time, i, result,
                   refreshes, pass, seen>>

\* Lines 88-90 without the re-check.
UpToDateNever(t) == FALSE
\* Line 88: `current_time < next_flush`.
UpToDate(t) == current_time[t] < next_flush

\* repopulate_timezone_cache, lines 88-91: return (releasing the lock), or
\* clear the map.
Recheck(t) ==
    /\ pc[t] = "recheck"
    /\ IF UpToDate(t)
       THEN /\ cache_rwlock' = [cache_rwlock EXCEPT !.writer = NoThread]
            /\ pc' = [pc EXCEPT ![t] = "lock_shared"]
            /\ current_time' = [current_time EXCEPT ![t] = 0]
            /\ UNCHANGED <<cache, refreshes, pass, seen>>
       ELSE /\ cache' = EmptyCache
            /\ seen' = [u \in Threads |->
                            IF pc[u] \in {"idle", "done", "threw"} THEN seen[u]
                            ELSE [seen[u] EXCEPT !.refreshed = TRUE]]
            /\ refreshes' = Append(refreshes, current_time[t])
            /\ pass' = [src |-> platform, partial |-> TRUE]
            /\ pc' = [pc EXCEPT ![t] = "setflush"]
            /\ UNCHANGED <<cache_rwlock, current_time>>
    /\ UNCHANGED <<dstVars, now, platform, next_flush,
                   zone_name, native_name, i, result>>

\* repopulate_timezone_cache, lines 92-94 (loop entry).
SetFlush(t) ==
    /\ pc[t] = "setflush"
    /\ next_flush' = current_time[t] + CACHE_INVALIDATION_TIMEOUT
    /\ i' = [i EXCEPT ![t] = 1]
    /\ current_time' = [current_time EXCEPT ![t] = 0]
    /\ pc' = [pc EXCEPT ![t] = "enum"]
    /\ UNCHANGED <<dstVars, now, platform, cache, cache_rwlock,
                   zone_name, native_name, result, refreshes, pass, seen>>

\* repopulate_timezone_cache, lines 94-99: one iteration of the loop.
\* (The code counts i from 0; the model's sequences count from 1.)
Enumerate(t) ==
    /\ pc[t] = "enum"
    /\ LET list == Platforms[platform]
       IN  IF i[t] > Len(list)
           THEN \* ERROR_NO_MORE_ITEMS: the loop ends, line 100 unlocks.
                /\ cache_rwlock' = [cache_rwlock EXCEPT !.writer = NoThread]
                /\ pass' = [pass EXCEPT !.partial = FALSE]
                /\ pc' = [pc EXCEPT ![t] = "lock_shared"]
                /\ i' = [i EXCEPT ![t] = 0]
                /\ UNCHANGED <<cache, result>>
           ELSE LET e == list[i[t]]
                IN  IF e.dwResult # "ERROR_SUCCESS"
                    THEN /\ i' = [i EXCEPT ![t] = @ + 1]
                         /\ UNCHANGED <<cache, cache_rwlock, pass, pc, result>>
                    ELSE IF KeyTooLong(e.dtzi)
                    THEN \* line 48 throws std::runtime_error: the lock_guard
                         \* unlocks, and nothing up to the caller catches it.
                         /\ cache_rwlock' = [cache_rwlock EXCEPT !.writer = NoThread]
                         /\ pc' = [pc EXCEPT ![t] = "threw"]
                         /\ result' = [result EXCEPT ![t] =
                                [kind |-> "runtime_error", val |-> 0,
                                 absent |-> cache[native_name[t]] = Absent]]
                         /\ i' = [i EXCEPT ![t] = 0]
                         /\ UNCHANGED <<cache, pass>>
                    ELSE /\ cache' = [cache EXCEPT ![key_to_string(e.dtzi)] = e.dtzi]
                         /\ i' = [i EXCEPT ![t] = @ + 1]
                         /\ UNCHANGED <<cache_rwlock, pass, pc, result>>
    /\ UNCHANGED <<dstVars, now, platform, next_flush,
                   zone_name, native_name, current_time,
                   refreshes, seen>>

\* time_zone_by_native_name, line 111: std::shared_lock.
LockShared(t) ==
    /\ pc[t] = "lock_shared"
    /\ Writer = NoThread
    /\ cache_rwlock' = [cache_rwlock EXCEPT !.readers = @ \cup {t}]
    /\ pc' = [pc EXCEPT ![t] = "read"]
    /\ UNCHANGED <<dstVars, now, platform, next_flush, cache,
                   zone_name, native_name, current_time, i, result,
                   refreshes, pass, seen>>

\* time_zone_by_native_name, lines 112-113, and the way back through
\* time_zone_by_name (lines 123-126) and offset_at_instant (lines 313-318).
Read(t) ==
    /\ pc[t] = "read"
    /\ LET rec == cache[native_name[t]]
       IN  \E e \in CacheInstants, ok \in BOOLEAN :
            result' = [result EXCEPT ![t] =
                IF rec = Absent
                THEN [kind |-> "value", val |-> INT_MAX, absent |-> TRUE]
                ELSE [kind |-> "value", absent |-> FALSE,
                      val |-> offset_at_systime(rec, unix_time_to_systemtime(e), ok)]]
    /\ cache_rwlock' = [cache_rwlock EXCEPT !.readers = @ \ {t}]
    /\ pc' = [pc EXCEPT ![t] = "done"]
    /\ seen' = [seen EXCEPT ![t] = NoSeen]
    /\ UNCHANGED <<dstVars, now, platform, next_flush, cache,
                   zone_name, native_name, current_time, i,
                   refreshes, pass>>

\* The call is over (with a value or with the exception); the thread is free
\* for the next call.
Return(t) ==
    /\ pc[t] \in {"done", "threw"}
    /\ pc' = [pc EXCEPT ![t] = "idle"]
    /\ zone_name' = [zone_name EXCEPT ![t] = ""]
    /\ native_name' = [native_name EXCEPT ![t] = ""]
    /\ current_time' = [current_time EXCEPT ![t] = 0]
    /\ i' = [i EXCEPT ![t] = 0]
    /\ result' = [result EXCEPT ![t] = NoResult]
    /\ seen' = [seen EXCEPT ![t] = NoSeen]
    /\ UNCHANGED <<dstVars, now, platform, next_flush, cache, cache_rwlock,
                   refreshes, pass>>

Next ==
    \/ PlatformChange
    \/ \E t \in Threads :
        \/ Call(t) \/ CheckFlush(t) \/ Lock(t) \/ Recheck(t) \/ SetFlush(t)
        \/ Enumerate(t) \/ LockShared(t) \/ Read(t) \/ Return(t)

Spec == Init /\ [][Next]_vars
\* ------------------------------------------------------ claims on the cache
RECURSIVE EnumeratedFrom(_, _, _)
EnumeratedFrom(list, k, map) ==
    IF k > Len(list) THEN map
    ELSE EnumeratedFrom(list, k + 1,
            IF list[k].dwResult = "ERROR_SUCCESS" /\ ~KeyTooLong(list[k].dtzi)
            THEN [map EXCEPT ![key_to_string(list[k].dtzi)] = list[k].dtzi]
            ELSE map)
\* The whole content of one enumeration of zone list p (0: none yet).
CompleteMap(p) ==
    IF p = 0 THEN EmptyCache ELSE EnumeratedFrom(Platforms[p], 1, EmptyCache)
\* The map is the whole result of one pass that ran to its end.
CacheComplete == ~pass.partial /\ cache = CompleteMap(pass.src)
NoPassRunning == \A w \in Threads : ~InPass(w)
Ended(t) == pc[t] \in {"done", "threw"}

\* C1: no lookup reads the map while a refresh is between clearing it and
\* the end of the enumeration, and what a lookup reads is the whole content
\* of a finished pass (or the content before the first one), never a
\* partially cleared or partially repopulated map.
C1_LookupReadsWholeMap ==
    \A t \in Threads : pc[t] = "read" => (NoPassRunning /\ CacheComplete)

\* C2: a refresh clears and enumerates only when the refresher's time has
\* reached next_flush (before that, lookups get the cached, pre-change
\* records), and a lookup whose time is past next_flush reads the whole
\* result of an enumeration made after the lookup began.
C2_Freshness ==
    \A t \in Threads :
        /\ pc[t] = "setflush" => current_time[t] >= next_flush
        /\ (pc[t] = "read" /\ seen[t].stale) =>
                (seen[t].refreshed /\ CacheComplete)

\* C4: a query for "UTC" always resolves and gives offset 0.
C4_UtcAlwaysZero ==
    \A t \in Threads :
        (Ended(t) /\ zone_name[t] = "UTC") =>
            (result[t].kind = "value" /\ result[t].val = 0)

\* C5: a query for a zone without native counterpart, or whose native key
\* is not in the cache after the possible refresh, returns INT_MAX, and no
\* exception leaves the call.
C5_UnknownZoneSentinel ==
    \A t \in Threads :
        (Ended(t) /\ result[t].absent) =>
            (result[t].kind = "value" /\ result[t].val = INT_MAX)

\* C6: whenever no refresh pass is running, also after a pass that met a
\* malformed record, the map is the whole result of one pass, and
\* next_flush does not mark a partially rebuilt map as fresh.
C6_CacheNeverCorrupted ==
    NoPassRunning =>
        /\ cache = CompleteMap(pass.src)
        /\ pass.partial => next_flush <= now

\* C7: next_flush never decreases, and any two refreshes that clear and
\* enumerate use captured times at least CACHE_INVALIDATION_TIMEOUT apart
\* (so threads that saw the same stale next_flush collapse into one refresh).
C7_OncePerWindow ==
    /\ [][next_flush' >= next_flush]_vars
    /\ [](\A a, b \in DOMAIN refreshes :
            a < b => refreshes[b] - refreshes[a] >= CACHE_INVALIDATION_TIMEOUT)
\* Two refreshes have enumerated, and a thread that saw the cache stale holds
\* the lock and is about to return at the re-check.
C7_Witness ==
    /\ Len(refreshes) >= 2
    /\ \E t \in Threads :
        pc[t] = "recheck" /\ seen[t].stale /\ current_time[t] < next_flush

\* C10: every access to next_flush and to the map is made holding the lock
\* (writes exclusively, reads shared or exclusively), and no thread reads
\* next_flush while a refresher is writing it.
C10_AllAccessUnderLock ==
    /\ \A t \in Threads :
        /\ pc[t] \in {"recheck", "setflush", "enum"} => Writer = t
        /\ pc[t] \in {"check", "read"} => (t \in Readers \/ Writer = t)
    /\ ~(\E t, w \in Threads : pc[t] = "check" /\ pc[w] = "setflush")
====
